---- MODULE Spec2Model ----
(***************************************************************************)
(* A model of metaplace's app.py: the CI build poll (get_jenkins,          *)
(* get_travis, get_build), the Persona session handlers (login, logout)    *)
(* and the transaction-log view (transactions, list_to_dict_multiple).     *)
(*                                                                         *)
(* Each request handler is one atomic action.  Strings whose characters    *)
(* the code inspects (timestamps, dates, amounts, status codes) are        *)
(* sequences of one-character strings; strings the code only compares or   *)
(* tests for emptiness (currency, id, email) are TLA+ strings.             *)
(* Numbers printed with '%.2f' are integers counting hundredths.           *)
(***************************************************************************)
EXTENDS Integers, Sequences, FiniteSets, TLC

VARIABLES
    cache,       \* the memcached store: key -> value, for the keys present
    buildResp,   \* what the last /build/ request ended with
    transition,  \* whether the last get_build took the branch of line 129-131
    failingPolls,\* the failing polls in a row since one that read a stored True
    changesSeen, \* how many polls of that row took the branch of line 129-131
    session,     \* the browser session: key -> value, for the keys present
    s3,          \* the S3 bucket of server "dev": date of a log -> its rows
    logCache,    \* the files of the log_cache directory: name -> rows
    resp,        \* what the last login/logout/transactions request ended with
    effects      \* the storage and aggregation steps the last request ran

vars == <<cache, buildResp, transition, failingPolls, changesSeen,
          session, s3, logCache, resp, effects>>

buildVars == <<cache, buildResp, transition, failingPolls, changesSeen>>
webVars == <<session, s3, logCache, resp, effects>>

(***************************************************************************)
(* Bounds of the model.                                                    *)
(***************************************************************************)
\* how many of the jenkins jobs of `builds` are polled
MaxJenkins == 2
\* how many of the travis repositories of `builds` are polled
MaxTravis == 1
\* the longest row of failing polls that is counted
MaxRun == 3
\* the longest transaction log of SpecTx
MaxRows == 3
\* the longest transaction log of SpecStatus
MaxStatusRows == 6

(***************************************************************************)
(* Python values.                                                          *)
(***************************************************************************)
\* Python's None, and the response grequests.map gives for a failed request
None == [none |-> TRUE]

\* a dict with no keys
EmptyDict == <<>>

\* d[k] = v on a dict
DictSet(d, k, v) == [x \in DOMAIN d \cup {k} |-> IF x = k THEN v ELSE d[x]]

\* a dict without key k
DictDel(d, k) == [x \in DOMAIN d \ {k} |-> d[x]]

Range(s) == {s[i] : i \in DOMAIN s}

(***************************************************************************)
(* The build poll.                                                         *)
(***************************************************************************)
builds == [jenkins |-> <<"solitude", "marketplace", "marketplace-api",
                         "marketplace-webpay", "amo-master", "solitude">>,
           travis  |-> <<"andymckay/receipts", "mozilla/fireplace",
                         "andymckay/django-paranoia", "andymckay/curling",
                         "andymckay/django-statsd", "andymckay/mozilla-logger">>]

Min2(a, b) == IF a < b THEN a ELSE b

Max2(a, b) == IF a > b THEN a ELSE b

\* the least number of a set of numbers
Min(S) == CHOOSE x \in S : \A y \in S : x <= y

\* the jobs the model polls: a prefix of each list of `builds`
JenkinsKeys == SubSeq(builds.jenkins, 1, Min2(MaxJenkins, Len(builds.jenkins)))
TravisKeys == SubSeq(builds.travis, 1, Min2(MaxTravis, Len(builds.travis)))

\* what one CI request can come back with: no response, or a JSON body
JenkinsResps == {None} \cup {[result |-> r] : r \in {"SUCCESS", "FAILURE"}}
TravisResps == {None} \cup {[last_build_result |-> r] : r \in {0, 1}}

\* The zip loop of get_jenkins from position i on.  resp.json() on a missing
\* response raises, which ends the whole call: the value is then Raised.
Raised == [raised |-> TRUE]

RECURSIVE JenkinsLoop(_, _, _, _)
JenkinsLoop(keys, resps, results, i) ==
    IF i > Len(keys) THEN results
    ELSE IF resps[i] = None THEN Raised
    ELSE JenkinsLoop(keys, resps,
                     DictSet(results, keys[i], resps[i].result = "SUCCESS"),
                     i + 1)

\* a loop that records a job without a response as failed and goes on
RECURSIVE JenkinsLoopLenient(_, _, _, _)
JenkinsLoopLenient(keys, resps, results, i) ==
    IF i > Len(keys) THEN results
    ELSE JenkinsLoopLenient(keys, resps,
             DictSet(results, keys[i],
                     resps[i] # None /\ resps[i].result = "SUCCESS"),
             i + 1)

get_jenkinsLenient(keys, resps, results) ==
    JenkinsLoopLenient(keys, resps, results, 1)

get_jenkins(keys, resps, results) == JenkinsLoop(keys, resps, results, 1)

RECURSIVE TravisLoop(_, _, _, _)
TravisLoop(keys, resps, results, i) ==
    IF i > Len(keys) THEN results
    ELSE IF resps[i] = None THEN Raised
    ELSE TravisLoop(keys, resps,
                    DictSet(results, keys[i], resps[i].last_build_result = 0),
                    i + 1)

get_travis(keys, resps, results) == TravisLoop(keys, resps, results, 1)

\* Python's all() over the values of a dict, taken one key at a time
RECURSIVE AllOver(_, _)
AllOver(d, keys) ==
    IF keys = {} THEN TRUE
    ELSE LET k == CHOOSE x \in keys : TRUE
         IN  d[k] /\ AllOver(d, keys \ {k})

\* a fold that stops at the first true value instead of the first false one
allAsAny(d) == \E k \in DOMAIN d : d[k]

all(d) == AllOver(d, DOMAIN d)

\* cache.get(key): the value, or None on a miss
CacheHas(key) == key \in DOMAIN cache

\* bool(cache.get('last-build')): a miss reads as False
LastBuild(c) == "last-build" \in DOMAIN c /\ c["last-build"]

\* The fresh poll of lines 116-118: the results dict, or Raised.
Poll(jresps, tresps) ==
    LET r1 == get_jenkins(JenkinsKeys, jresps, EmptyDict)
    IN  IF r1 = Raised THEN Raised
        ELSE get_travis(TravisKeys, tresps, r1)

\* The writes of lines 125-131 to 'last-build', given the value read at
\* line 123 and the overall status.  `last is None` never holds for a bool.
WriteLast(c, last, passing) ==
    LET c1 == DictSet(c, "last-build", TRUE)
    IN  IF last # passing THEN DictSet(c1, "last-build", passing) ELSE c1

\* get_build, with the responses its requests would receive.  The 'when' of
\* the result (the time of the poll) and the sorting of the results for
\* display are left out.
get_build(jresps, tresps) ==
    LET hit    == CacheHas("build")
        polled == IF hit THEN cache["build"] ELSE Poll(jresps, tresps)
    IN  IF polled = Raised
        THEN /\ buildResp' = [code |-> 500]
             /\ transition' = FALSE
             /\ UNCHANGED cache
        ELSE LET c0      == IF hit THEN cache ELSE DictSet(cache, "build", polled)
                 passing == all(polled)
                 last    == LastBuild(c0)
             IN  /\ cache' = WriteLast(c0, last, passing)
                 /\ transition' = (last # passing)
                 /\ buildResp' = [code |-> 200, all |-> passing, result |-> polled]

\* An observer of get_build's calls: it counts the polls of a row of failing
\* polls that starts at a poll reading a stored last status of True, and the
\* polls among them that found last # passing.  A passing poll or a poll that
\* raised ends the row; the counting stops at MaxRun polls.
ObservePoll ==
    LET failing == buildResp'.code = 200 /\ ~buildResp'.all
        seen    == IF transition' THEN 1 ELSE 0
    IN  IF ~failing
        THEN failingPolls' = 0 /\ changesSeen' = 0
        ELSE IF failingPolls = 0
        THEN IF LastBuild(cache)
             THEN failingPolls' = 1 /\ changesSeen' = seen
             ELSE failingPolls' = 0 /\ changesSeen' = 0
        ELSE IF failingPolls < MaxRun
        THEN failingPolls' = failingPolls + 1 /\ changesSeen' = changesSeen + seen
        ELSE UNCHANGED <<failingPolls, changesSeen>>

\* the /build/ route
build ==
    /\ \E jresps \in [1..Len(JenkinsKeys) -> JenkinsResps],
          tresps \in [1..Len(TravisKeys) -> TravisResps] :
            get_build(jresps, tresps)
    /\ ObservePoll
    /\ UNCHANGED webVars

\* memcached drops an entry: its timeout ran out (300 s for both keys).
\* Losing 'last-build' loses the stored status, which ends the counted row.
Expire ==
    /\ \E key \in DOMAIN cache :
         /\ cache' = DictDel(cache, key)
         /\ IF key = "last-build"
            THEN failingPolls' = 0 /\ changesSeen' = 0
            ELSE UNCHANGED <<failingPolls, changesSeen>>
    /\ UNCHANGED <<buildResp, transition>>
    /\ UNCHANGED webVars

(***************************************************************************)
(* Strings, timestamps and decimals of the transaction log.                *)
(***************************************************************************)
\* the character codes of the characters the inputs are written with
Ascii == ("+" :> 43 @@ "-" :> 45 @@ "." :> 46 @@
          "0" :> 48 @@ "1" :> 49 @@ "2" :> 50 @@ "3" :> 51 @@ "4" :> 52 @@
          "5" :> 53 @@ "6" :> 54 @@ "7" :> 55 @@ "8" :> 56 @@ "9" :> 57 @@
          ":" :> 58 @@ "T" :> 84 @@ "a" :> 97 @@ "b" :> 98 @@ "c" :> 99)

IsDigit(c) == c \in {"0", "1", "2", "3", "4", "5", "6", "7", "8", "9"}

DigitVal(c) == Ascii[c] - Ascii["0"]

\* Python's < on two strings: by character code, a proper prefix first
RECURSIVE StrLess(_, _)
StrLess(a, b) ==
    IF b = <<>> THEN FALSE
    ELSE IF a = <<>> THEN TRUE
    ELSE IF Ascii[Head(a)] # Ascii[Head(b)] THEN Ascii[Head(a)] < Ascii[Head(b)]
    ELSE StrLess(Tail(a), Tail(b))

\* the number a string of digits writes
RECURSIVE DigitsVal(_)
DigitsVal(ds) ==
    IF ds = <<>> THEN 0
    ELSE DigitsVal(SubSeq(ds, 1, Len(ds) - 1)) * 10 + DigitVal(ds[Len(ds)])

AllDigits(ds) == \A i \in DOMAIN ds : IsDigit(ds[i])

IsLeap(y) == y % 4 = 0 /\ (y % 100 # 0 \/ y % 400 = 0)

DaysInMonth(y, m) ==
    IF m = 2 THEN (IF IsLeap(y) THEN 29 ELSE 28)
    ELSE IF m \in {4, 6, 9, 11} THEN 30 ELSE 31

RECURSIVE DaysBeforeMonth(_, _)
DaysBeforeMonth(y, m) ==
    IF m = 1 THEN 0 ELSE DaysBeforeMonth(y, m - 1) + DaysInMonth(y, m - 1)

DaysBeforeYear(y) ==
    LET p == y - 1 IN p * 365 + (p \div 4) - (p \div 100) + (p \div 400)

\* datetime.toordinal(): the day number of a date
Ordinal(y, m, d) == DaysBeforeYear(y) + DaysBeforeMonth(y, m) + d

\* date(y, m, d): the date, or Raised (ValueError) when the calendar has no
\* such day
MakeDate(y, m, d) ==
    IF y >= 1 /\ m \in 1..12 /\ d >= 1 /\ d <= DaysInMonth(y, m)
    THEN [year |-> y, month |-> m, day |-> d]
    ELSE Raised

\* datetime.strptime(s, '%Y-%m-%d'), for a date written with two-digit month
\* and day: the date, or Raised (ValueError) when s does not match the
\* format or names no day of the calendar.
ParseDate(s) ==
    IF ~(/\ Len(s) = 10
         /\ s[5] = "-" /\ s[8] = "-"
         /\ AllDigits(SubSeq(s, 1, 4))
         /\ AllDigits(SubSeq(s, 6, 7))
         /\ AllDigits(SubSeq(s, 9, 10)))
    THEN Raised
    ELSE MakeDate(DigitsVal(SubSeq(s, 1, 4)),
                  DigitsVal(SubSeq(s, 6, 7)),
                  DigitsVal(SubSeq(s, 9, 10)))

\* date.strftime('%Y-%m-%d')
Pad(n, width) ==
    [i \in 1..width |->
        LET digit == (n \div (10 ^ (width - i))) % 10
        IN  CHOOSE c \in DOMAIN Ascii : IsDigit(c) /\ DigitVal(c) = digit]

FormatDate(dt) ==
    Pad(dt.year, 4) \o <<"-">> \o Pad(dt.month, 2) \o <<"-">> \o Pad(dt.day, 2)

\* datetime(date, h, mi, sec): the moment as (day number, second of the day),
\* or Raised (ValueError)
MakeMoment(date, h, mi, sec) ==
    IF date # Raised /\ h <= 23 /\ mi <= 59 /\ sec <= 59
    THEN [days    |-> Ordinal(date.year, date.month, date.day),
          seconds |-> (h * 60 + mi) * 60 + sec]
    ELSE Raised

\* datetime.strptime(s, '%Y-%m-%dT%H:%M:%S'), for a timestamp written with
\* two-digit fields: the moment, or Raised.
strptime(s) ==
    IF ~(/\ Len(s) = 19
         /\ s[11] = "T" /\ s[14] = ":" /\ s[17] = ":"
         /\ AllDigits(SubSeq(s, 12, 13))
         /\ AllDigits(SubSeq(s, 15, 16))
         /\ AllDigits(SubSeq(s, 18, 19)))
    THEN Raised
    ELSE MakeMoment(ParseDate(SubSeq(s, 1, 10)),
                    DigitsVal(SubSeq(s, 12, 13)),
                    DigitsVal(SubSeq(s, 15, 16)),
                    DigitsVal(SubSeq(s, 18, 19)))

\* (modified - created).total_seconds()
total_seconds(modified, created) ==
    (modified.days - created.days) * 86400 + (modified.seconds - created.seconds)

\* the Decimal a sign, the digits before the point and the digits after it
\* write, or Raised (InvalidOperation) when they hold no digit or a character
\* that is none
DecimalOf(negative, whole, frac) ==
    IF (whole \o frac) # <<>> /\ AllDigits(whole \o frac)
    THEN [coef |-> IF negative THEN 0 - DigitsVal(whole \o frac)
                   ELSE DigitsVal(whole \o frac),
          exp  |-> Len(frac)]
    ELSE Raised

\* the text split at its first point
Unsigned(negative, body, dots) ==
    IF dots = {} THEN DecimalOf(negative, body, <<>>)
    ELSE DecimalOf(negative,
                   SubSeq(body, 1, Min(dots) - 1),
                   SubSeq(body, Min(dots) + 1, Len(body)))

\* Decimal(s), for s written as [sign] digits [. digits]: the exact value
\* coef / 10^exp, or Raised for any other text.
Decimal(s) ==
    IF s # <<>> /\ Head(s) \in {"+", "-"}
    THEN Unsigned(Head(s) = "-", Tail(s), {i \in DOMAIN Tail(s) : Tail(s)[i] = "."})
    ELSE Unsigned(FALSE, s, {i \in DOMAIN s : s[i] = "."})

\* a + b on two Decimals
DecimalAdd(a, b) ==
    [coef |-> a.coef * (10 ^ (Max2(a.exp, b.exp) - a.exp))
              + b.coef * (10 ^ (Max2(a.exp, b.exp) - b.exp)),
     exp  |-> Max2(a.exp, b.exp)]

\* sum(items) over Decimals, as the exact value coef / 10^exp
RECURSIVE DecimalSum(_)
DecimalSum(items) ==
    IF items = <<>> THEN [coef |-> 0, exp |-> 0]
    ELSE DecimalAdd(DecimalSum(SubSeq(items, 1, Len(items) - 1)),
                    items[Len(items)])

RECURSIVE Sum(_)
Sum(xs) == IF xs = <<>> THEN 0 ELSE Head(xs) + Sum(Tail(xs))

\* '%.2f' % (num / den) for den > 0, as a count of hundredths: the nearest
\* one, an exact tie going to the even neighbour.  (printf rounds the binary
\* value of the float, so a tie whose decimal value no float holds exactly can
\* go either way; no formula below rests on how a tie goes.)
Fmt2Floor(num, den) == (100 * num) \div den

Nearest(n, den, q) ==
    IF 2 * (n - q * den) < den THEN q
    ELSE IF 2 * (n - q * den) > den THEN q + 1
    ELSE IF q % 2 = 0 THEN q ELSE q + 1

Fmt2(num, den) == Nearest(100 * num, den, (100 * num) \div den)

(***************************************************************************)
(* The aggregation of the transactions view (lines 230-259).               *)
(***************************************************************************)
\* lines 235-238: the delta joins the list unless it is zero, the status
\* joins the list
AddDiffStatus(st, diff, status) ==
    [st EXCEPT !.diff = IF diff # 0 THEN Append(@, diff) ELSE @,
               !.status = Append(@, status)]

\* lines 240-242, with the Decimal of the amount already made
AddCurrency(st, currency, amount) ==
    [st EXCEPT !.currencies = Append(@, <<currency, amount>>)]

\* The loop over the rows of the log from row i on, with the lists gathered
\* so far: the lists, or Raised when a strptime or a Decimal raises.
RECURSIVE RowLoop(_, _, _)
RECURSIVE RowTimes(_, _, _, _, _)
RECURSIVE RowMoney(_, _, _, _)

RowLoop(rows, i, st) ==
    IF i > Len(rows) THEN st
    ELSE RowTimes(rows, i, st, strptime(rows[i].created), strptime(rows[i].modified))

RowTimes(rows, i, st, created, modified) ==
    IF created = Raised \/ modified = Raised THEN Raised
    ELSE IF rows[i].currency # "" /\ rows[i].amount # <<>>
    THEN RowMoney(rows, i,
                  AddDiffStatus(st, total_seconds(modified, created), rows[i].status),
                  Decimal(rows[i].amount))
    ELSE RowLoop(rows, i + 1,
                 AddDiffStatus(st, total_seconds(modified, created), rows[i].status))

RowMoney(rows, i, st, amount) ==
    IF amount = Raised THEN Raised
    ELSE RowLoop(rows, i + 1, AddCurrency(st, rows[i].currency, amount))

\* sorted(xs) for a list of strings
RECURSIVE Insert(_, _)
Insert(x, sorted) ==
    IF sorted = <<>> THEN <<x>>
    ELSE IF StrLess(x, Head(sorted)) THEN <<x>> \o sorted
    ELSE <<Head(sorted)>> \o Insert(x, Tail(sorted))

RECURSIVE Sorted(_)
Sorted(xs) == IF xs = <<>> THEN <<>> ELSE Insert(xs[Len(xs)], Sorted(SubSeq(xs, 1, Len(xs) - 1)))

\* one more item in front of the runs of the items after it
JoinRun(x, runs) ==
    IF runs # <<>> /\ runs[1][1] = x
    THEN <<<<x, runs[1][2] + 1>>>> \o Tail(runs)
    ELSE <<<<x, 1>>>> \o runs

\* itertools.groupby(xs): the runs of equal neighbours, as <<key, length>>
RECURSIVE groupby(_)
groupby(xs) ==
    IF xs = <<>> THEN <<>> ELSE JoinRun(Head(xs), groupby(Tail(xs)))

\* lines 249-252: one (status, percentage) pair per run of the sorted list
StatusPercents(groups, total) ==
    [g \in 1..Len(groups) |-> <<groups[g][1], Fmt2(groups[g][2] * 100, total)>>]

Statuses(status) == StatusPercents(groupby(Sorted(status)), Len(status))

\* the lambda of the reduce: x[k].append(v) or x
AppendTo(x, k, v) ==
    DictSet(x, k, Append(IF k \in DOMAIN x THEN x[k] ELSE <<>>, v))

\* a reduce that keeps only the latest value of each key
RECURSIVE list_to_dict_last(_)
list_to_dict_last(listy) ==
    IF listy = <<>> THEN EmptyDict
    ELSE DictSet(list_to_dict_last(SubSeq(listy, 1, Len(listy) - 1)),
                 listy[Len(listy)][1], <<listy[Len(listy)][2]>>)

\* reduce(lambda x, (k, v): x[k].append(v) or x, listy, defaultdict(list))
RECURSIVE list_to_dict_multiple(_)
list_to_dict_multiple(listy) ==
    IF listy = <<>> THEN EmptyDict
    ELSE AppendTo(list_to_dict_multiple(SubSeq(listy, 1, Len(listy) - 1)),
                  listy[Len(listy)][1], listy[Len(listy)][2])

\* lines 256-259 for one currency, with the sum of its items already made
BucketOf(items, total) ==
    [items |-> items,
     count |-> Len(items),
     mean  |-> Fmt2(total.coef, (10 ^ total.exp) * Len(items))]

Bucket(items) == BucketOf(items, DecimalSum(items))

\* lines 246-259 on the lists of the loop and the dict of line 254: the stats
\* handed to the template, or Raised (ZeroDivisionError at line 258)
Summary(st, byCurrency) ==
    IF \E c \in DOMAIN byCurrency : byCurrency[c] = <<>>
    THEN Raised
    ELSE [k \in {"diff", "status", "statuses", "currencies"}
               \cup (IF Len(st.diff) > 0 THEN {"mean"} ELSE {}) |->
            CASE k = "diff" -> st.diff
              [] k = "status" -> st.status
              [] k = "statuses" -> Statuses(st.status)
              [] k = "currencies" ->
                   [c \in DOMAIN byCurrency |-> Bucket(byCurrency[c])]
              [] k = "mean" -> Fmt2(Sum(st.diff), Len(st.diff))]

Summarise(st) ==
    IF st = Raised THEN Raised
    ELSE Summary(st, list_to_dict_multiple(st.currencies))

\* The body of the `with` block: the stats handed to the template, or Raised.
Aggregate(rows) ==
    Summarise(RowLoop(rows, 1, [diff |-> <<>>, status |-> <<>>, currencies |-> <<>>]))

(***************************************************************************)
(* The session handlers and the transactions view.                         *)
(***************************************************************************)
\* local.MOZS, the addresses allowed to see the transactions, and the
\* addresses the verifier can vouch for
MOZS == {"andy@mozilla.com"}
Emails == {"andy@mozilla.com", "eve@example.com"}

\* a session check that accepts whoever is logged in
SessionHasEmail(sess) == "email" \in DOMAIN sess /\ sess["email"] # None

\* session.get('mozillian'), taken as a condition
SessionMozillian(sess) == "mozillian" \in DOMAIN sess /\ sess["mozillian"]

\* session.update({...}) with the two keys the handlers write; an address is
\* held as [addr |-> ...], which is never equal to None
SessionUpdate(sess, email, mozillian) ==
    DictSet(DictSet(sess, "email", email), "mozillian", mozillian)

\* POST /auth/login: whether the form holds an assertion, whether the
\* verifier answered, and what it answered
login ==
    /\ \E assertion \in BOOLEAN, ok \in BOOLEAN,
          status \in {"okay", "failure"}, email \in Emails :
         IF ~assertion
         THEN /\ resp' = [route |-> "login", code |-> 400]
              /\ UNCHANGED session
         ELSE IF ok /\ status = "okay"
         THEN /\ session' = SessionUpdate(session, [addr |-> email], email \in MOZS)
              /\ resp' = [route |-> "login", code |-> 200]
         ELSE /\ resp' = [route |-> "login", code |-> 500]
              /\ UNCHANGED session
    /\ effects' = {}
    /\ UNCHANGED <<s3, logCache>>
    /\ UNCHANGED buildVars

\* /auth/logout
logout ==
    /\ session' = SessionUpdate(session, None, FALSE)
    /\ resp' = [route |-> "logout", code |-> 200]
    /\ effects' = {}
    /\ UNCHANGED <<s3, logCache>>
    /\ UNCHANGED buildVars

\* the end of a transactions request
Respond(code, ran) ==
    /\ resp' = [route |-> "transactions", code |-> code]
    /\ effects' = ran

\* lines 229-263: the file is read and summed up
Render(dest_filename, fetched, files, stats) ==
    /\ logCache' = files
    /\ effects' = {"listdir", "open", "aggregate"}
                   \cup (IF fetched THEN {"s3_get"} ELSE {})
    /\ resp' = IF stats = Raised
               THEN [route |-> "transactions", code |-> 500]
               ELSE [route    |-> "transactions",
                     code     |-> 200,
                     rows     |-> Len(files[dest_filename]),
                     stats    |-> stats,
                     filename |-> dest_filename]

\* lines 225-228: the file is fetched unless the directory holds it
Open(dest_filename, files, fetched) ==
    Render(dest_filename, fetched, files, Aggregate(files[dest_filename]))

ViewFile(src_filename, dest_filename) ==
    IF dest_filename \in DOMAIN logCache
    THEN Open(dest_filename, logCache, FALSE)
    ELSE IF src_filename \in DOMAIN s3
    THEN Open(dest_filename, DictSet(logCache, dest_filename, s3[src_filename]), TRUE)
    ELSE \* s3_get raises: the bucket holds no such key
         Respond(500, {"listdir", "s3_get"}) /\ UNCHANGED logCache

\* lines 222-224, with the date already parsed
ViewDay(server, date) ==
    IF date = Raised
    THEN Respond(500, {}) /\ UNCHANGED logCache
    ELSE ViewFile(FormatDate(date), [date |-> FormatDate(date), server |-> server])

\* /transactions/<server>/<date>/ for the server whose bucket s3 is; an empty
\* server or date is the bare /transactions/ route.  The `dates` links, which
\* only depend on today's date, are left out of the response.
transactionsFor(server, date) ==
    IF ~SessionMozillian(session)
    THEN Respond(403, {}) /\ UNCHANGED logCache
    ELSE IF server = "" \/ date = <<>>
    THEN Respond(200, {}) /\ UNCHANGED logCache
    ELSE ViewDay(server, ParseDate(date))

(***************************************************************************)
(* The inputs of the transactions view.                                    *)
(***************************************************************************)
\* 'YYYY-MM-DDTHH:MM:SS' written from numbers (any numbers: 61 minutes too)
Stamp(y, m, d, h, mi, sec) ==
    Pad(y, 4) \o <<"-">> \o Pad(m, 2) \o <<"-">> \o Pad(d, 2) \o <<"T">>
        \o Pad(h, 2) \o <<":">> \o Pad(mi, 2) \o <<":">> \o Pad(sec, 2)

Row(id, created, modified, status, currency, amount) ==
    [id |-> id, created |-> created, modified |-> modified,
     status |-> status, currency |-> currency, amount |-> amount]

Midnight == Stamp(2024, 1, 1, 0, 0, 0)
Later == Stamp(2024, 1, 1, 0, 1, 40)
Eve == Stamp(2023, 12, 31, 23, 59, 0)

\* the rows of the logs of SpecTx: deltas of 100, 0, -100 and 60 seconds, a
\* timestamp naming minute 61, an amount that is no number, an empty status,
\* the unknown status "10", and currency and amount each present without the
\* other
TxRows ==
    { Row("a", Midnight, Later, <<"1">>, "USD", <<"1", "0", ".", "0", "0">>),
      Row("b", Midnight, Midnight, <<"4">>, "", <<"3">>),
      Row("c", Later, Midnight, <<"1">>, "USD", <<"2", ".", "5", "0">>),
      Row("d", Eve, Midnight, <<"1", "0">>, "EUR", <<"1">>),
      Row("e", Midnight, Stamp(2024, 1, 1, 0, 61, 0), <<"1">>, "USD",
          <<"1", "0", ".", "0", "0">>),
      Row("g", Midnight, Later, <<"4">>, "EUR", <<"a", "b", "c">>),
      Row("h", Midnight, Later, <<>>, "EUR", <<"0", ".", "5">>),
      Row("i", Midnight, Later, <<"0">>, "EUR", <<>>) }

\* the status codes of the `statuses` table
StatusCodes == {<<"0">>, <<"1">>, <<"2">>, <<"3">>, <<"4">>, <<"5">>}

\* the rows of the logs of SpecStatus
StatusRows == {Row("s", Midnight, Later, code, "", <<>>) : code \in StatusCodes}

\* the rows of a log come in the order of their status codes
Ascending(log) ==
    \A i \in 1..(Len(log) - 1) : ~StrLess(log[i + 1].status, log[i].status)

Descending(log) ==
    \A i \in 1..(Len(log) - 1) : ~StrLess(log[i].status, log[i + 1].status)

\* every log of at most n rows drawn from a set of rows
LogsOf(rowSet, n) == UNION {[1..k -> rowSet] : k \in 0..n}

\* the day whose log the bucket holds, and the <date> parts of the requests:
\* none, that day, a day with no log, and a date that is no day
LogDate == <<"2", "0", "2", "4", "-", "0", "1", "-", "0", "1">>

Dates == {<<>>, LogDate,
          <<"2", "0", "2", "4", "-", "0", "1", "-", "0", "2">>,
          <<"2", "0", "2", "4", "-", "0", "2", "-", "3", "0">>}

\* the <server> parts of the requests: none, and the server of the bucket
Servers == {"", "dev"}

\* the /transactions/ routes
transactions ==
    /\ \E server \in Servers, date \in Dates : transactionsFor(server, date)
    /\ UNCHANGED <<session, s3>>
    /\ UNCHANGED buildVars

\* the view of the day's log on server "dev"
transactionsOfDay ==
    /\ transactionsFor("dev", LogDate)
    /\ UNCHANGED <<session, s3>>
    /\ UNCHANGED buildVars

(***************************************************************************)
(* Specifications.                                                         *)
(***************************************************************************)
InitBuild ==
    /\ cache = EmptyDict
    /\ buildResp = [code |-> 0]
    /\ transition = FALSE
    /\ failingPolls = 0
    /\ changesSeen = 0

InitWebIdle ==
    /\ session = EmptyDict
    /\ s3 = EmptyDict
    /\ logCache = EmptyDict
    /\ resp = [route |-> "", code |-> 0]
    /\ effects = {}

\* SpecBuild: the build poll against every combination of CI responses
InitB == InitBuild /\ InitWebIdle

NextBuild == build \/ Expire

SpecBuild == InitB /\ [][NextBuild]_vars

\* SpecTx: a fresh browser session and, in the bucket, any day's log of up to
\* MaxRows rows of TxRows
InitTx ==
    /\ InitBuild
    /\ session = EmptyDict
    /\ \E log \in LogsOf(TxRows, MaxRows) : s3 = (LogDate :> log)
    /\ logCache = EmptyDict
    /\ resp = [route |-> "", code |-> 0]
    /\ effects = {}

NextTx == login \/ logout \/ transactions

SpecTx == InitTx /\ [][NextTx]_vars

\* SpecStatus: a session logged in from the allowed list and, in the bucket,
\* any day's log of up to MaxStatusRows well-formed rows that differ in
\* status only and come in the order of their status, up or down
InitStatus ==
    /\ InitBuild
    /\ session = SessionUpdate(EmptyDict, [addr |-> "andy@mozilla.com"], TRUE)
    /\ \E log \in LogsOf(StatusRows, MaxStatusRows) :
         /\ Ascending(log) \/ Descending(log)
         /\ s3 = (LogDate :> log)
    /\ logCache = EmptyDict
    /\ resp = [route |-> "login", code |-> 200]
    /\ effects = {}

NextStatus == transactionsOfDay

SpecStatus == InitStatus /\ [][NextStatus]_vars

(***************************************************************************)
(* Claims about the build poll, checked under SpecBuild.                   *)
(***************************************************************************)
JenkinsInputs == [1..Len(JenkinsKeys) -> JenkinsResps]
TravisInputs == [1..Len(TravisKeys) -> TravisResps]

\* C1: over polls that keep computing a failing overall status, starting at
\* a poll that reads a stored last status of true, the status change is
\* detected on exactly one poll (the first failing one) however many failing
\* polls follow.
C1_ChangeDetectedOnce == failingPolls >= 1 => changesSeen = 1

\* C9: the overall status get_build returns is the conjunction of the job
\* results: true exactly when every job succeeded, false when some job
\* failed, and true for a mapping with no job.
C9_OverallIsAnd ==
    /\ buildResp.code = 200 =>
          /\ buildResp.all = (\A k \in DOMAIN buildResp.result : buildResp.result[k])
          /\ ~buildResp.all = (\E k \in DOMAIN buildResp.result : ~buildResp.result[k])
    /\ all(EmptyDict)

\* a poll answered with one failed and one passing job
C9_Witness ==
    /\ buildResp.code = 200
    /\ ~buildResp.all
    /\ \E k \in DOMAIN buildResp.result : buildResp.result[k]
    /\ \E k \in DOMAIN buildResp.result : ~buildResp.result[k]

\* C10: a poll that issues its requests and gets no response for some job
\* ends in an error: it returns no overall status and no job results, and
\* leaves the cache as it was (no 'build' entry, 'last-build' untouched), so
\* the next call polls again.
C10_FailedRequestIsError ==
    [][~CacheHas("build") =>
         \/ /\ buildResp'.code = 500
            /\ DOMAIN buildResp' = {"code"}
            /\ cache' = cache
         \/ ~\E jresps \in JenkinsInputs, tresps \in TravisInputs :
                /\ None \in Range(jresps) \/ None \in Range(tresps)
                /\ get_build(jresps, tresps)]_vars

\* a failed poll made after an earlier poll stored a passing status
C10_Witness ==
    /\ buildResp.code = 500
    /\ ~CacheHas("build")
    /\ LastBuild(cache)

(***************************************************************************)
(* Claims about the transactions view, checked under SpecTx and SpecStatus.*)
(***************************************************************************)
\* the file of the day's log in the log_cache directory
DayFile == [date |-> LogDate, server |-> "dev"]

\* the last request read the day's log and ran the aggregation on it
Viewed == resp.route = "transactions" /\ "aggregate" \in effects

\* the last request ended with the summary of the day's log
HasStats == Viewed /\ resp.code = 200

ViewedRows == logCache[DayFile]

TimesParse(row) == strptime(row.created) # Raised /\ strptime(row.modified) # Raised

HasMoney(row) == row.currency # "" /\ row.amount # <<>>

AmountParses(row) == HasMoney(row) => Decimal(row.amount) # Raised

\* the signed deltas of the rows whose two timestamps parse, in input order
DeltasOf(rows) ==
    LET good == SelectSeq(rows, TimesParse)
    IN  [i \in 1..Len(good) |->
            total_seconds(strptime(good[i].modified), strptime(good[i].created))]

StatusOf(rows) == [i \in 1..Len(rows) |-> rows[i].status]

Abs(n) == IF n < 0 THEN 0 - n ELSE n

\* v is a count of hundredths nearest to num / den
NearestHundredth(v, num, den) == 2 * Abs(v * den - 100 * num) <= den

\* C2: the latency list holds one signed delta per row whose timestamps
\* parsed, zero and negative deltas included, and the mean latency is the
\* mean over all those rows.
C2_EveryDeltaCounted ==
    HasStats =>
        /\ resp.stats.diff = DeltasOf(ViewedRows)
        /\ DeltasOf(ViewedRows) # <<>> =>
             /\ "mean" \in DOMAIN resp.stats
             /\ NearestHundredth(resp.stats.mean, Sum(DeltasOf(ViewedRows)),
                                 Len(DeltasOf(ViewedRows)))

\* C3: a row whose created or modified timestamp does not parse is not fatal:
\* the aggregation of a log whose amounts are all well-formed completes with
\* a summary of every row, the bad rows add no latency, and their statuses
\* are counted.
C3_BadTimestampNotFatal ==
    (Viewed /\ \A i \in DOMAIN ViewedRows : AmountParses(ViewedRows[i])) =>
        /\ resp.code = 200
        /\ resp.rows = Len(ViewedRows)
        /\ resp.stats.status = StatusOf(ViewedRows)
        /\ Len(resp.stats.diff) <= Len(SelectSeq(ViewedRows, TimesParse))

\* the rows of a currency bucket: those with that currency and an amount
\* that is a number
BucketRows(rows, c) ==
    SelectSeq(rows, LAMBDA r : r.currency = c /\ r.amount # <<>>
                                 /\ Decimal(r.amount) # Raised)

\* C4: a row with a currency and an unparseable amount is left out of the
\* currency breakdown only: the aggregation of a log whose timestamps are all
\* well-formed completes, counts the row in rowCount and in the status list,
\* and puts no item for it in any currency bucket.
C4_BadAmountNotFatal ==
    (Viewed /\ \A i \in DOMAIN ViewedRows : TimesParse(ViewedRows[i])) =>
        /\ resp.code = 200
        /\ resp.rows = Len(ViewedRows)
        /\ resp.stats.status = StatusOf(ViewedRows)
        /\ \A c \in DOMAIN resp.stats.currencies :
             resp.stats.currencies[c].count = Len(BucketRows(ViewedRows, c))

\* the sum of the percentages of the status distribution, in hundredths
RECURSIVE SumPercents(_)
SumPercents(statuses) ==
    IF statuses = <<>> THEN 0
    ELSE Head(statuses)[2] + SumPercents(Tail(statuses))

SomeStatus(rows) == \E i \in DOMAIN rows : rows[i].status # <<>>

\* C5 as stated: when some row has a status, the percentages of the status
\* distribution sum to between 99.99 and 100.01, whatever the number of
\* distinct status values and the group sizes.
C5_SumWithinOneHundredth ==
    (HasStats /\ SomeStatus(ViewedRows)) =>
        /\ SumPercents(resp.stats.statuses) >= 9999
        /\ SumPercents(resp.stats.statuses) <= 10001

\* C5 as amended: when some row has a status, the percentages of the status
\* distribution sum to 100.00 give or take 0.005 for each entry of the
\* distribution.
C5_SumWithinHalfPerEntry ==
    (HasStats /\ SomeStatus(ViewedRows)) =>
        2 * Abs(SumPercents(resp.stats.statuses) - 10000)
            <= Len(resp.stats.statuses)

\* a distribution of four or more statuses whose percentages are all rounded
C5_Witness ==
    /\ HasStats
    /\ Len(resp.stats.statuses) >= 4
    /\ SumPercents(resp.stats.statuses) # 10000

\* C6: rows with an empty status are left out of the status distribution:
\* no entry has the empty status as its key, and every percentage is the
\* share of its group among the rows that have a status.
C6_EmptyStatusExcluded ==
    HasStats =>
        LET withStatus == SelectSeq(ViewedRows, LAMBDA r : r.status # <<>>)
            dist       == resp.stats.statuses
        IN  /\ \A g \in DOMAIN dist : dist[g][1] # <<>>
            /\ \A g \in DOMAIN dist :
                 NearestHundredth(
                     dist[g][2],
                     100 * Len(SelectSeq(withStatus, LAMBDA r : r.status = dist[g][1])),
                     Len(withStatus))

\* C7: every currency of the breakdown has count = len(items) >= 1, its items
\* are the amounts of the rows with that currency and a non-empty amount, in
\* input order, its mean is sum(items) / count to the nearest hundredth, and
\* a currency with no such row has no key.
C7_CurrencyBuckets ==
    HasStats =>
        LET cur == resp.stats.currencies
        IN  /\ DOMAIN cur = {ViewedRows[i].currency :
                               i \in {j \in DOMAIN ViewedRows : HasMoney(ViewedRows[j])}}
            /\ \A c \in DOMAIN cur :
                 LET rows  == SelectSeq(ViewedRows, LAMBDA r : r.currency = c /\ r.amount # <<>>)
                     total == DecimalSum(cur[c].items)
                 IN  /\ cur[c].count = Len(cur[c].items)
                     /\ cur[c].count >= 1
                     /\ cur[c].items = [i \in 1..Len(rows) |-> Decimal(rows[i].amount)]
                     /\ NearestHundredth(cur[c].mean, total.coef,
                                         (10 ^ total.exp) * cur[c].count)

\* a breakdown with two currencies, one of them with two different amounts
C7_Witness ==
    /\ HasStats
    /\ Cardinality(DOMAIN resp.stats.currencies) = 2
    /\ \E c \in DOMAIN resp.stats.currencies :
         /\ resp.stats.currencies[c].count = 2
         /\ resp.stats.currencies[c].items[1] # resp.stats.currencies[c].items[2]

\* C8: a transactions request made while the session's mozillian flag is not
\* true ends with 403 and nothing else: no directory listing, no fetch from
\* the bucket, no file read, no aggregation, no file added to the directory.
C8_AuthBeforeAnything ==
    [][(/\ resp'.route = "transactions"
        /\ ~("mozillian" \in DOMAIN session /\ session["mozillian"] = TRUE))
       => /\ resp'.code = 403
          /\ DOMAIN resp' = {"route", "code"}
          /\ effects' = {}
          /\ logCache' = logCache]_vars

\* a request refused after a login with an address outside the list, and one
\* refused after a logout
C8_Witness ==
    /\ resp.route = "transactions"
    /\ resp.code = 403
    /\ "email" \in DOMAIN session
    /\ ~session["mozillian"]

====
